---- MODULE Spec2Model ----
(***************************************************************************)
(* AcademicTextHumanizer (src/transformer/app.py): the sentence-by-sentence *)
(* rewriting pipeline humanize_text, with the module-level random generator *)
(* and parser it shares between instances.                                  *)
(*                                                                          *)
(* A text is a sequence of one-character strings.  Probabilities are kept   *)
(* as integer percentages, and a draw of random.random() is a percentage in *)
(* 0..99.                                                                   *)
(***************************************************************************)
EXTENDS Integers, Sequences, FiniteSets, TLC

VARIABLES SPACY_NLP, rng, humanizers, calls, last

vars == <<SPACY_NLP, rng, humanizers, calls, last>>

(***************************************************************************)
(* Characters and the str / re primitives the code uses.                    *)
(***************************************************************************)
LowerSeq ==
    <<"a","b","c","d","e","f","g","h","i","j","k","l","m","n","o","p","q","r","s","t","u","v","w","x","y","z">>
UpperSeq ==
    <<"A","B","C","D","E","F","G","H","I","J","K","L","M","N","O","P","Q","R","S","T","U","V","W","X","Y","Z">>
Lowers == {LowerSeq[i] : i \in 1..26}
Uppers == {UpperSeq[i] : i \in 1..26}

\* One element standing for a run of FillerLen copies of the digit 7: a word
\* character without case, so that texts around the length limit stay small.
Filler == "7*"
Digits == {"7", Filler}
Spaces == {" "}

ToLowerMap == [c \in Uppers |-> LowerSeq[CHOOSE i \in 1..26 : UpperSeq[i] = c]]
ToUpperMap == [c \in Lowers |-> UpperSeq[CHOOSE i \in 1..26 : LowerSeq[i] = c]]

\* str.lower / str.upper / str.islower / str.isupper of one character
LowerCh(c) == IF c \in Uppers THEN ToLowerMap[c] ELSE c
UpperCh(c) == IF c \in Lowers THEN ToUpperMap[c] ELSE c
IsLowerCh(c) == c \in Lowers
IsUpperCh(c) == c \in Uppers
\* \s and \w of the re module
IsSpace(c) == c \in Spaces
IsWordCh(c) == c \in Lowers \/ c \in Uppers \/ c \in Digits \/ c = "_"

\* len(text): the run element counts for FillerLen characters
\* the limit of humanize_text, and a run that fills a text up to it
MaxInputChars == 20000
FillerLen == MaxInputChars - 8
CharLen(c) == IF c = Filler THEN FillerLen ELSE 1
StrLen(s) == Len(s) + Len(SelectSeq(s, LAMBDA c : c = Filler)) * (FillerLen - 1)

Lower(s) == [i \in 1..Len(s) |-> LowerCh(s[i])]
Upper(s) == [i \in 1..Len(s) |-> UpperCh(s[i])]

\* s[0].upper() + s[1:] of a non-empty string
UpperFirst(s) == <<UpperCh(s[1])>> \o Tail(s)

\* the characters of s, each with its index
Indexed(s) == [i \in 1..Len(s) |-> [at |-> i, ch |-> s[i]]]
Chars(marked) == [i \in 1..Len(marked) |-> marked[i].ch]

\* the least index in lo..hi where P holds, hi + 1 if there is none
FirstIndex(P(_), lo, hi) ==
    CHOOSE j \in lo..(hi + 1) :
        /\ j = hi + 1 \/ P(j)
        /\ \A k \in lo..(j - 1) : ~P(k)

\* str.strip()
RECURSIVE LStrip(_)
LStrip(s) == IF s # <<>> /\ IsSpace(Head(s)) THEN LStrip(Tail(s)) ELSE s
RECURSIVE RStrip(_)
RStrip(s) ==
    IF s # <<>> /\ IsSpace(s[Len(s)]) THEN RStrip(SubSeq(s, 1, Len(s) - 1)) ELSE s
Strip(s) == RStrip(LStrip(s))

\* the index after the run of whitespace that starts at i (i itself if none)
RECURSIVE SkipSpaces(_, _)
SkipSpaces(s, i) ==
    IF i <= Len(s) /\ IsSpace(s[i]) THEN SkipSpaces(s, i + 1) ELSE i

\* the literal lit occurs in s at index i; the comparison ignores case when ic
MatchAt(s, i, lit, ic) ==
    /\ i + Len(lit) - 1 <= Len(s)
    /\ \A j \in 1..Len(lit) :
          IF ic THEN LowerCh(s[i + j - 1]) = LowerCh(lit[j]) ELSE s[i + j - 1] = lit[j]

\* \b holds between s[p-1] and s[p]
WordBoundary(s, p) ==
    (p > 1 /\ IsWordCh(s[p - 1])) # (p <= Len(s) /\ IsWordCh(s[p]))

\* " ".join(parts): the first half of the parts, a space, the second half
RECURSIVE JoinSpace(_)
JoinSpace(parts) ==
    IF parts = <<>> THEN <<>>
    ELSE IF Len(parts) = 1 THEN parts[1]
    ELSE JoinSpace(SubSeq(parts, 1, Len(parts) \div 2)) \o <<" ">>
         \o JoinSpace(SubSeq(parts, Len(parts) \div 2 + 1, Len(parts)))

\* str.split(): the maximal runs of non-whitespace, in order
WordStarts(s) ==
    SelectSeq(Indexed(s), LAMBDA m : ~IsSpace(m.ch) /\ (m.at = 1 \/ IsSpace(s[m.at - 1])))
WordsFrom(s, starts) ==
    [k \in 1..Len(starts) |->
        SubSeq(s, starts[k].at,
               FirstIndex(LAMBDA j : IsSpace(s[j]), starts[k].at, Len(s)) - 1)]
Split(s) == WordsFrom(s, WordStarts(s))

\* str.rstrip(",")
RECURSIVE RStripComma(_)
RStripComma(s) ==
    IF s # <<>> /\ s[Len(s)] = "," THEN RStripComma(SubSeq(s, 1, Len(s) - 1)) ELSE s

(***************************************************************************)
(* The vocabulary tables __init__ gives every instance.                     *)
(***************************************************************************)
academic_transitions ==
    << <<"M","o","r","e","o","v","e","r">>,
       <<"A","d","d","i","t","i","o","n","a","l","l","y">>,
       <<"F","u","r","t","h","e","r","m","o","r","e">>,
       <<"H","o","w","e","v","e","r">>,
       <<"T","h","e","r","e","f","o","r","e">>,
       <<"C","o","n","s","e","q","u","e","n","t","l","y">>,
       <<"N","o","t","a","b","l","y">>,
       <<"I","m","p","o","r","t","a","n","t","l","y">>,
       <<"S","p","e","c","i","f","i","c","a","l","l","y">>,
       <<"I","n"," ","c","o","n","t","r","a","s","t">>,
       <<"C","o","n","v","e","r","s","e","l","y">>,
       <<"H","e","n","c","e">> >>

\* the dict, as the sequence of its (key, value) pairs in insertion order
contractions_map ==
    << <<<<"c","a","n","'","t">>, <<"c","a","n","n","o","t">>>>,
       <<<<"w","o","n","'","t">>, <<"w","i","l","l"," ","n","o","t">>>>,
       <<<<"n","'","t">>, <<" ","n","o","t">>>>,
       <<<<"'","r","e">>, <<" ","a","r","e">>>>,
       <<<<"'","s">>, <<" ","i","s">>>>,
       <<<<"'","l","l">>, <<" ","w","i","l","l">>>>,
       <<<<"'","v","e">>, <<" ","h","a","v","e">>>>,
       <<<<"'","d">>, <<" ","w","o","u","l","d">>>>,
       <<<<"'","m">>, <<" ","a","m">>>>,
       <<<<"i","t","'","s">>, <<"i","t"," ","i","s">>>>,
       <<<<"t","h","a","t","'","s">>, <<"t","h","a","t"," ","i","s">>>>,
       <<<<"d","o","n","'","t">>, <<"d","o"," ","n","o","t">>>>,
       <<<<"d","o","e","s","n","'","t">>, <<"d","o","e","s"," ","n","o","t">>>>,
       <<<<"i","s","n","'","t">>, <<"i","s"," ","n","o","t">>>> >>

\* the dict, as the sequence of its (key, list) pairs in insertion order
academic_word_map ==
    << <<<<"u","s","e">>,
          <<<<"u","t","i","l","i","z","e">>,
            <<"e","m","p","l","o","y">>,
            <<"a","p","p","l","y">>,
            <<"l","e","v","e","r","a","g","e">>>> >>,
       <<<<"m","a","k","e">>,
          <<<<"p","r","o","d","u","c","e">>,
            <<"c","r","e","a","t","e">>,
            <<"c","o","n","s","t","r","u","c","t">>>> >>,
       <<<<"g","e","t">>,
          <<<<"o","b","t","a","i","n">>,
            <<"a","c","q","u","i","r","e">>,
            <<"a","t","t","a","i","n">>>> >>,
       <<<<"s","h","o","w">>,
          <<<<"d","e","m","o","n","s","t","r","a","t","e">>,
            <<"i","l","l","u","s","t","r","a","t","e">>,
            <<"r","e","v","e","a","l">>>> >>,
       <<<<"h","e","l","p">>,
          <<<<"a","s","s","i","s","t">>,
            <<"f","a","c","i","l","i","t","a","t","e">>,
            <<"s","u","p","p","o","r","t">>>> >>,
       <<<<"s","t","a","r","t">>,
          <<<<"i","n","i","t","i","a","t","e">>,
            <<"c","o","m","m","e","n","c","e">>,
            <<"u","n","d","e","r","t","a","k","e">>>> >>,
       <<<<"c","h","a","n","g","e">>,
          <<<<"m","o","d","i","f","y">>,
            <<"a","l","t","e","r">>,
            <<"t","r","a","n","s","f","o","r","m">>>> >>,
       <<<<"g","o","o","d">>,
          <<<<"e","f","f","e","c","t","i","v","e">>,
            <<"b","e","n","e","f","i","c","i","a","l">>,
            <<"a","d","v","a","n","t","a","g","e","o","u","s">>>> >>,
       <<<<"i","m","p","o","r","t","a","n","t">>,
          <<<<"c","r","u","c","i","a","l">>,
            <<"e","s","s","e","n","t","i","a","l">>,
            <<"p","a","r","a","m","o","u","n","t">>>> >>,
       <<<<"p","r","o","b","l","e","m">>,
          <<<<"i","s","s","u","e">>,
            <<"c","h","a","l","l","e","n","g","e">>,
            <<"o","b","s","t","a","c","l","e">>>> >>,
       <<<<"w","a","y">>,
          <<<<"m","e","t","h","o","d">>,
            <<"a","p","p","r","o","a","c","h">>,
            <<"t","e","c","h","n","i","q","u","e">>>> >>,
       <<<<"r","e","s","u","l","t">>,
          <<<<"o","u","t","c","o","m","e">>,
            <<"f","i","n","d","i","n","g">>,
            <<"c","o","n","s","e","q","u","e","n","c","e">>>> >> >>

PassiveClauseNoParser ==
    <<" ","T","h","i","s"," ","o","b","s","e","r","v","a","t","i","o","n"," ","i","s"," ","s","u","p","p","o","r","t","e","d"," ","b","y"," ","t","h","e"," ","e","v","i","d","e","n","c","e",".">>
PassiveClauseFallback ==
    <<" ","T","h","i","s"," ","c","a","n"," ","b","e"," ","o","b","s","e","r","v","e","d"," ","e","m","p","i","r","i","c","a","l","l","y",".">>

ErrNotString ==
    <<"E","r","r","o","r",":"," ","i","n","p","u","t"," ","m","u","s","t"," ","b","e"," ","a"," ","s","t","r","i","n","g",".">>
ErrTooLong ==
    <<"E","r","r","o","r",":"," ","i","n","p","u","t"," ","t","o","o"," ","l","o","n","g"," ","(","m","a","x"," ","2","0",",","0","0","0"," ","c","h","a","r","a","c","t","e","r","s",")",".">>

(***************************************************************************)
(* The tagger and the thesaurus are libraries.  The model gives them a      *)
(* small fixed vocabulary: Lexicon is the part of speech the tagger (or the *)
(* parser) assigns, wordnet the lemma names of the synsets of a word.       *)
(* The tag of a word is the library's answer for the sentence it stands in: *)
(* the lexicon has a word of the curated map ("way") that is given a tag    *)
(* outside the four content classes.                                        *)
(***************************************************************************)
Lexicon ==
    << <<<<"u","s","e">>, "VERB">>,
       <<<<"m","e","t","h","o","d">>, "NOUN">>,
       <<<<"n","e","w">>, "ADJ">>,
       <<<<"w","o","r","k">>, "VERB">>,
       <<<<"w","e","l","l">>, "ADV">>,
       <<<<"s","h","o","w">>, "VERB">>,
       <<<<"r","e","s","u","l","t">>, "NOUN">>,
       <<<<"g","o","o","d">>, "ADJ">>,
       <<<<"c","h","i","n","a">>, "NOUN">>,
       <<<<"w","a","y">>, "X">>,
       <<<<"w","e">>, "X">>,
       <<<<"i","t">>, "X">>,
       <<<<"a">>, "X">>,
       <<<<"t","h","e">>, "X">>,
       <<<<"n","o","t">>, "X">>,
       <<<<"i","s">>, "X">>,
       <<<<"t","h","i","s">>, "X">>,
       <<<<"b","y">>, "X">> >>

wordnet ==
    << <<<<"u","s","e">>, "VERB",
          <<<<"u","s","e">>, <<"u","t","i","l","i","z","e">>, <<"a","p","p","l","y">>, <<"e","m","p","l","o","y">>, <<"h","a","b","i","t","u","a","t","e">>>> >>,
       <<<<"m","e","t","h","o","d">>, "NOUN",
          <<<<"m","e","t","h","o","d">>, <<"t","e","c","h","n","i","q","u","e">>, <<"m","o","d","u","s","_","o","p","e","r","a","n","d","i">>>> >>,
       <<<<"n","e","w">>, "ADJ",
          <<<<"n","e","w">>, <<"f","r","e","s","h">>, <<"n","o","v","e","l">>, <<"r","a","w">>>> >>,
       <<<<"c","h","i","n","a">>, "NOUN",
          <<<<"C","h","i","n","a">>, <<"m","a","i","n","l","a","n","d","_","C","h","i","n","a">>, <<"C","a","t","h","a","y">>, <<"T","a","i","w","a","n">>, <<"c","h","i","n","a","w","a","r","e">>>> >>,
       <<<<"w","o","r","k">>, "VERB",
          <<<<"w","o","r","k">>, <<"f","u","n","c","t","i","o","n">>, <<"o","p","e","r","a","t","e">>, <<"g","o">>>> >> >>

\* key in dict / dict[key] on a sequence of (key, value) pairs
HasKey(map, k) == \E i \in 1..Len(map) : map[i][1] = k
Lookup(map, k) == map[CHOOSE i \in 1..Len(map) : map[i][1] = k][2]

(***************************************************************************)
(* The module-level generator of `random`, shared by every instance.  Its   *)
(* state is a residue; a draw steps it and reads the new state.             *)
(***************************************************************************)
RngMod == 8
RngStates == 0..(RngMod - 1)
RandomStep(r) == (5 * r + 3) % RngMod
\* random.seed(seed)
SeedState(seed) == seed % RngMod
\* the value of random.random() read in state r, as a percentage
RandomValue(r) == (r * 100) \div RngMod
\* the index random.choice(seq) picks in state r, for a sequence of n entries
ChoiceIndex(r, n) == 1 + ((r * n) \div RngMod)
\* random.random() < p, read in state r, for a probability of p percent
RandomBelow(r, p) == RandomValue(r) < p

(***************************************************************************)
(* Internal helpers of AcademicTextHumanizer.                               *)
(***************************************************************************)
SentenceEnd == {".", "!", "?"}

\* re.split(r'(?<=[.!?])\s+', text): the pattern matches from each whitespace
\* character that follows a ., ! or ? to the end of the run of whitespace
SentenceCuts(s) ==
    SelectSeq(Indexed(s),
              LAMBDA m : IsSpace(m.ch) /\ m.at > 1 /\ s[m.at - 1] \in SentenceEnd)
PiecesAt(s, cuts) ==
    [k \in 1..(Len(cuts) + 1) |->
        SubSeq(s, IF k = 1 THEN 1 ELSE SkipSpaces(s, cuts[k - 1].at),
                  IF k > Len(cuts) THEN Len(s) ELSE cuts[k].at - 1)]
ReSplitSentences(s) == PiecesAt(s, SentenceCuts(s))

\* [s.strip() for s in parts if s.strip()]
StripAll(parts) ==
    LET stripped == [i \in 1..Len(parts) |-> Strip(parts[i])]
    IN  SelectSeq(stripped, LAMBDA p : p # <<>>)

\* The three tiers (parser, sent_tokenize, regular expression) cut the texts of
\* this model at the same places: after ., ! or ? followed by whitespace.
_split_sentences(nlp, text) == StripAll(ReSplitSentences(text))

\* sorted(keys, key=len, reverse=True): a stable sort, longest keys first
RECURSIVE SortedByLenDesc(_, _)
SortedByLenDesc(keys, n) ==
    IF n = 0 THEN <<>>
    ELSE SelectSeq(keys, LAMBDA k : Len(k) = n) \o SortedByLenDesc(keys, n - 1)
MaxKeyLen(keys) ==
    IF keys = <<>> THEN 0
    ELSE CHOOSE n \in {Len(keys[i]) : i \in 1..Len(keys)} :
            \A i \in 1..Len(keys) : Len(keys[i]) <= n
SortedKeys(map) ==
    LET keys == [i \in 1..Len(map) |-> map[i][1]]
    IN  SortedByLenDesc(keys, MaxKeyLen(keys))

\* re.compile(r"\b" + re.escape(k) + r"\b", flags=re.IGNORECASE) matches at i
ContractionMatchAt(s, i, k) ==
    /\ MatchAt(s, i, k, TRUE)
    /\ WordBoundary(s, i)
    /\ WordBoundary(s, i + Len(k))

\* pattern.sub(v, s): leftmost non-overlapping matches, scanned from i; p is
\* the next match, Len(s) + 1 if there is none
RECURSIVE SubContraction(_, _, _, _)
SubMatch(s, i, k, v, p) ==
    IF p > Len(s) THEN SubSeq(s, i, Len(s))
    ELSE SubSeq(s, i, p - 1) \o v \o SubContraction(s, p + Len(k), k, v)
SubContraction(s, i, k, v) ==
    SubMatch(s, i, k, v, FirstIndex(LAMBDA j : ContractionMatchAt(s, j, k), i, Len(s)))

\* the loop over the sorted keys, s the sentence so far
RECURSIVE ExpandKeys(_, _, _)
ExpandKeys(map, keys, s) ==
    IF s = <<>> \/ keys = <<>> THEN s
    ELSE ExpandKeys(map, Tail(keys),
                    SubContraction(s, 1, Head(keys), Lookup(map, Head(keys))))

_expand_contractions(self, sentence) ==
    ExpandKeys(self.contractions_map, SortedKeys(self.contractions_map), sentence)

\* defined for a sentence with at least one non-whitespace character, which is
\* what humanize_text passes
_starts_with_transition(self, sentence) ==
    LET head == RStripComma(Split(sentence)[1])
    IN  \E i \in 1..Len(self.academic_transitions) :
            Lower(self.academic_transitions[i]) = Lower(head)

\* r is the generator state random.choice reads
_add_transition(self, sentence, r) ==
    LET t == self.academic_transitions[ChoiceIndex(r, Len(self.academic_transitions))]
        cap == IF sentence # <<>> /\ IsLowerCh(sentence[1])
               THEN UpperFirst(sentence) ELSE sentence
    IN  t \o <<",", " ">> \o cap

\* re.sub(r"\s+", " ", s): of every run of whitespace the first character
\* stays, as a space
FirstOfRuns(s) ==
    SelectSeq(Indexed(s), LAMBDA m : ~(IsSpace(m.ch) /\ m.at > 1 /\ IsSpace(s[m.at - 1])))
AsSpaces(marked) ==
    [n \in 1..Len(marked) |-> IF IsSpace(marked[n].ch) THEN " " ELSE marked[n].ch]
CollapseSpaces(s) == IF s = <<>> THEN s ELSE AsSpaces(FirstOfRuns(s))

\* re.sub(r"\s+([...])", r"\1", s) for the set cs of punctuation characters:
\* the whitespace that runs up to one of them goes
DropSpacesBefore(s, cs) ==
    IF s = <<>> THEN s
    ELSE Chars(SelectSeq(Indexed(s),
                         LAMBDA m : ~(/\ IsSpace(m.ch)
                                      /\ SkipSpaces(s, m.at) <= Len(s)
                                      /\ s[SkipSpaces(s, m.at)] \in cs)))

\* s[0].upper() + s[1:], if s is not empty
CapitalizeFirst(s) == IF s # <<>> THEN UpperFirst(s) ELSE s
_final_clean_sentence(s) ==
    CapitalizeFirst(DropSpacesBefore(DropSpacesBefore(Strip(CollapseSpaces(s)), {","}),
                                     {"."}))

\* the index after the run of commas that starts at i (i itself if none)
RECURSIVE SkipCommas(_, _)
SkipCommas(s, i) ==
    IF i <= Len(s) /\ s[i] = "," THEN SkipCommas(s, i + 1) ELSE i

\* r",\s*,+" matches at i
CommaRunAt(s, i) ==
    s[i] = "," /\ SkipCommas(s, SkipSpaces(s, i + 1)) > SkipSpaces(s, i + 1)

\* re.sub(r",\s*,+", ",", text), scanned from i; p is the next match, Len(s) + 1
\* if there is none
RECURSIVE CollapseCommas(_, _)
CollapseCommaRun(s, i, p) ==
    IF p > Len(s) THEN SubSeq(s, i, Len(s))
    ELSE SubSeq(s, i, p) \o CollapseCommas(s, SkipCommas(s, SkipSpaces(s, p + 1)))
CollapseCommas(s, i) ==
    IF s = <<>> THEN s
    ELSE CollapseCommaRun(s, i, FirstIndex(LAMBDA j : CommaRunAt(s, j), i, Len(s)))

\* One repetition of the group (\b(?:T1|...|Tn),\s*) matched at i: the index
\* after it, or 0 when the group does not match there.  No entry of the list
\* is a prefix of another, so at most one alternative matches.
TransitionGroupEnd(trans, s, i) ==
    IF ~WordBoundary(s, i) THEN 0
    ELSE LET hits == {n \in 1..Len(trans) :
                        /\ MatchAt(s, i, trans[n], TRUE)
                        /\ i + Len(trans[n]) <= Len(s)
                        /\ s[i + Len(trans[n])] = ","}
         IN  IF hits = {} THEN 0
             ELSE SkipSpaces(s, i + Len(trans[CHOOSE n \in hits : TRUE]) + 1)

\* The greedy repetition {2,} from i: <<count, start of the last repetition, end>>
RECURSIVE TransitionRun(_, _, _, _, _)
TransitionRun(trans, s, i, count, lastStart) ==
    LET e == IF i <= Len(s) THEN TransitionGroupEnd(trans, s, i) ELSE 0
    IN  IF e = 0 THEN <<count, lastStart, i>>
        ELSE TransitionRun(trans, s, e, count + 1, i)

\* re.sub(r'(\b(?:T1|...|Tn),\s*){2,}', r'\1', text, flags=re.IGNORECASE),
\* scanned from i; p is the next match, Len(s) + 1 if there is none
RECURSIVE CollapseTransitions(_, _, _)
CollapseRun(trans, s, i, p, run) ==
    IF p > Len(s) THEN SubSeq(s, i, Len(s))
    ELSE SubSeq(s, i, p - 1) \o SubSeq(s, run[2], run[3] - 1)
         \o CollapseTransitions(trans, s, run[3])
CollapseRunAt(trans, s, i, p) ==
    CollapseRun(trans, s, i, p,
                IF p > Len(s) THEN <<0, p, p>> ELSE TransitionRun(trans, s, p, 0, p))
CollapseTransitions(trans, s, i) ==
    IF s = <<>> THEN s
    ELSE CollapseRunAt(trans, s, i,
                       FirstIndex(LAMBDA j : TransitionRun(trans, s, j, 0, j)[1] >= 2,
                                  i, Len(s)))

_post_process_text(self, text) ==
    Strip(CollapseTransitions(self.academic_transitions,
             CollapseSpaces(DropSpacesBefore(
                CollapseCommas(DropSpacesBefore(text, {","}), 1), {"."})),
             1))

\* re.findall(r"\w+|[^\w\s]", sentence), each token with whether whitespace
\* follows it (the parser's token.whitespace_): a token starts at the first
\* character of a run of word characters and at every punctuation character
TokenStarts(s) ==
    SelectSeq(Indexed(s),
              LAMBDA m : /\ ~IsSpace(m.ch)
                         /\ IsWordCh(m.ch) => (m.at = 1 \/ ~IsWordCh(s[m.at - 1])))
\* the index after the token that starts at a
TokenEnd(s, a) ==
    IF IsWordCh(s[a]) THEN FirstIndex(LAMBDA j : ~IsWordCh(s[j]), a, Len(s)) ELSE a + 1
TokenBetween(s, a, b) ==
    [text |-> SubSeq(s, a, b - 1), ws |-> (b <= Len(s) /\ IsSpace(s[b]))]
FindTokens(s, starts) ==
    [k \in 1..Len(starts) |-> TokenBetween(s, starts[k].at, TokenEnd(s, starts[k].at))]
Tokens(s) == FindTokens(s, TokenStarts(s))
\* re.match(r"\w+", w) / not token.is_punct
IsWordToken(w) == IsWordCh(w[1])

ContentPos == {"NOUN", "VERB", "ADJ", "ADV"}
\* token.pos_, and the class _nltk_to_wordnet_pos gives the tagger's tag:
\* a word outside the lexicon is tagged as a noun, a number as a numeral
PosOf(w) ==
    IF HasKey(Lexicon, Lower(w)) THEN Lookup(Lexicon, Lower(w))
    ELSE IF \E i \in 1..Len(w) : w[i] \in Digits THEN "X"
    ELSE "NOUN"

\* str.istitle(), str.isupper(), str.capitalize(), str.isalpha()
IsCased(c) == c \in Lowers \/ c \in Uppers
IsTitle(w) ==
    /\ \E i \in 1..Len(w) : IsCased(w[i])
    /\ \A i \in 1..Len(w) :
          /\ IsUpperCh(w[i]) => (i = 1 \/ ~IsCased(w[i - 1]))
          /\ IsLowerCh(w[i]) => (i > 1 /\ IsCased(w[i - 1]))
IsUpper(w) ==
    /\ \E i \in 1..Len(w) : IsCased(w[i])
    /\ \A i \in 1..Len(w) : ~IsLowerCh(w[i])
Capitalize(w) ==
    [i \in 1..Len(w) |-> IF i = 1 THEN UpperCh(w[i]) ELSE LowerCh(w[i])]
IsAlpha(w) == w # <<>> /\ \A i \in 1..Len(w) : IsCased(w[i])

_match_case(candidate, original) ==
    IF IsTitle(original) THEN Capitalize(candidate)
    ELSE IF IsUpper(original) THEN Upper(candidate)
    ELSE candidate

\* the lemma names of wordnet.synsets(lemma, pos=wn_pos), "_" replaced by " "
SynsetNames(lemma, wn_pos) ==
    LET hit == {i \in 1..Len(wordnet) :
                  wordnet[i][1] = Lower(lemma) /\ wordnet[i][2] = wn_pos}
    IN  IF hit = {} THEN <<>>
        ELSE LET names == wordnet[CHOOSE i \in hit : TRUE][3]
             IN  [n \in 1..Len(names) |->
                    [j \in 1..Len(names[n]) |->
                       IF names[n][j] = "_" THEN " " ELSE names[n][j]]]

\* the names kept, without repetition, until four are collected
RECURSIVE KeepSynonyms(_, _, _)
KeepSynonyms(names, lemma, kept) ==
    IF names = <<>> \/ Len(kept) >= 4 THEN kept
    ELSE LET name == Head(names)
             ok == /\ Lower(name) # Lower(lemma)
                   /\ IsAlpha(name)
                   /\ Len(name) > 3
                   /\ \A i \in 1..Len(kept) : kept[i] # name
         IN  KeepSynonyms(Tail(names), lemma, IF ok THEN Append(kept, name) ELSE kept)

\* the list returned, or <<>> for None
_get_simple_synonyms(lemma, wn_pos) == KeepSynonyms(SynsetNames(lemma, wn_pos), lemma, <<>>)

EndsWith(s, suffix) ==
    Len(s) >= Len(suffix) /\ SubSeq(s, Len(s) - Len(suffix) + 1, Len(s)) = suffix
Vowels == {"a", "e", "i", "o", "u"}

_past_participle_from_verb(lemma) ==
    IF lemma = <<>> THEN <<"e", "d">>
    ELSE LET names == SynsetNames(lemma, "VERB")
             found == {n \in 1..Len(names) :
                         Len(names[n]) > Len(lemma) /\ EndsWith(names[n], <<"e", "d">>)}
         IN  IF found # {}
             THEN names[CHOOSE n \in found : \A m \in found : n <= m]
             ELSE IF EndsWith(lemma, <<"e">>) THEN lemma \o <<"d">>
             ELSE IF /\ EndsWith(lemma, <<"y">>)
                     /\ Len(lemma) > 2
                     /\ lemma[Len(lemma) - 1] \notin Vowels
                  THEN SubSeq(lemma, 1, Len(lemma) - 1) \o <<"i", "e", "d">>
             ELSE lemma \o <<"e", "d">>

\* The parses of the model give the subject and the object no modifier
\* children, so the span of a token is its own text.
_reconstruct_span(token) == token.text

(***************************************************************************)
(* What the parser answers for a sentence is an input of the call: it       *)
(* raises, it finds no subject-verb-object triple, or it finds one; the     *)
(* triple is given by the positions of its words among the word tokens      *)
(* (0 stands for the last word).                                            *)
(***************************************************************************)
ParseRaise == [kind |-> "raise", subj |-> 0, root |-> 0, dobj |-> 0]
ParseNone == [kind |-> "none", subj |-> 0, root |-> 0, dobj |-> 0]
ParseSVO == [kind |-> "svo", subj |-> 1, root |-> 2, dobj |-> 0]
ParseLateSVO == [kind |-> "svo", subj |-> 2, root |-> 3, dobj |-> 0]
ParseOVS == [kind |-> "svo", subj |-> 0, root |-> 2, dobj |-> 1]
ParseOutcomes == {ParseRaise, ParseNone, ParseSVO, ParseLateSVO, ParseOVS}

WordTokens(s) == SelectSeq(Tokens(s), LAMBDA t : IsWordToken(t.text))
TokenAt(words, p) == IF p = 0 THEN words[Len(words)] ELSE words[p]

\* Each returns the sentence, the generator state after the draws, and whether
\* an exception was caught on the way.
\* the branch without a parser
PassiveNoParser(sentence, r1) ==
    [s |-> IF RandomBelow(r1, 50) THEN sentence \o PassiveClauseNoParser ELSE sentence,
     rng |-> r1, raised |-> FALSE]

\* the "mild academic addition" after the try block
PassiveFallback(sentence, r1, raised) ==
    [s |-> IF RandomBelow(r1, 35) THEN sentence \o PassiveClauseFallback ELSE sentence,
     rng |-> r1, raised |-> raised]

\* f"{obj_text_cap} is {pp} by {subj_text}."
PassiveSentence(pp, obj_text, subj_text, r) ==
    [s |-> (IF obj_text # <<>> THEN UpperFirst(obj_text) ELSE obj_text)
           \o <<" ", "i", "s", " ">> \o pp \o <<" ", "b", "y", " ">> \o subj_text
           \o <<".">>,
     rng |-> r, raised |-> FALSE]

\* the try block over the parse of the sentence, with what follows it
PassiveWithParser(self, sentence, words, r, parse) ==
    IF /\ parse.kind = "svo"
       /\ Len(words) >= 3
       /\ parse.subj <= Len(words) /\ parse.root <= Len(words)
    THEN PassiveSentence(_past_participle_from_verb(Lower(TokenAt(words, parse.root).text)),
                         _reconstruct_span(TokenAt(words, parse.dobj)),
                         _reconstruct_span(TokenAt(words, parse.subj)), r)
    ELSE PassiveFallback(sentence, RandomStep(r), parse.kind = "raise")

\* _safe_passive_transform without its "if not self.nlp" branch: calling the
\* missing parser raises inside the try block
PassiveWithoutParserCheck(self, sentence, r, parse) ==
    IF sentence = <<>> \/ Len(Split(sentence)) < 4
    THEN [s |-> sentence, rng |-> r, raised |-> FALSE]
    ELSE PassiveWithParser(self, sentence, WordTokens(sentence), r,
                           IF self.nlp THEN parse ELSE ParseRaise)

_safe_passive_transform(self, sentence, r, parse) ==
    IF sentence = <<>> \/ Len(Split(sentence)) < 4
    THEN [s |-> sentence, rng |-> r, raised |-> FALSE]
    ELSE IF ~self.nlp THEN PassiveNoParser(sentence, RandomStep(r))
    ELSE PassiveWithParser(self, sentence, WordTokens(sentence), r, parse)

\* random.choice(seq) in state r, in the capitalization of the word w
ChooseLike(seq, r, w) ==
    [text |-> _match_case(seq[ChoiceIndex(r, Len(seq))], w), rng |-> r]

\* the thesaurus branch for the word w: syns is the list found (<<>> for
\* none), r the state after the draw that was made if there is a list
FromThesaurus(w, syns, r, pThesaurus) ==
    IF syns # <<>> /\ RandomBelow(r, pThesaurus)
    THEN ChooseLike(syns, RandomStep(r), w)
    ELSE [text |-> w, rng |-> r]

\* the word w, not taken from the curated map, in state r
TryThesaurus(w, syns, r, pThesaurus) ==
    FromThesaurus(w, syns, IF syns # <<>> THEN RandomStep(r) ELSE r, pThesaurus)

\* the curated branch: r is the state after the draw made if the key is in the map
FromCurated(self, w, key, syns, r, pCurated, pThesaurus) ==
    IF HasKey(self.academic_word_map, key) /\ RandomBelow(r, pCurated)
    THEN ChooseLike(Lookup(self.academic_word_map, key), RandomStep(r), w)
    ELSE TryThesaurus(w, syns, r, pThesaurus)

\* One word under the curated map, then the thesaurus: pCurated and pThesaurus
\* are the two acceptance thresholds, wn_pos is "" for None.
ReplaceWord(self, w, key, wn_pos, r, pCurated, pThesaurus) ==
    FromCurated(self, w, key,
                IF wn_pos = "" THEN <<>> ELSE _get_simple_synonyms(key, wn_pos),
                IF HasKey(self.academic_word_map, key) THEN RandomStep(r) ELSE r,
                pCurated, pThesaurus)

_nltk_to_wordnet_pos(tag) == IF tag \in ContentPos THEN tag ELSE ""

\* one token of the loop of the parser path (viaParser) or of the tagger path
ReplaceToken(self, w, r, viaParser) ==
    IF ~IsWordToken(w) THEN [text |-> w, rng |-> r]
    ELSE IF viaParser
    THEN (IF PosOf(w) \in ContentPos
          THEN ReplaceWord(self, w, Lower(w), PosOf(w), r, 70, 50)
          ELSE [text |-> w, rng |-> r])
    ELSE ReplaceWord(self, w, Lower(w), _nltk_to_wordnet_pos(PosOf(w)), r, 60, 45)

\* the token loop over toks[lo..hi] from the state r: the first half of the
\* tokens, then the second half from the state the first left
RECURSIVE ReplaceTokens(_, _, _, _, _, _)
OneToken(one) == [out |-> <<one.text>>, rng |-> one.rng]
ThenTokens(first, rest) == [out |-> first.out \o rest.out, rng |-> rest.rng]
SecondHalf(self, toks, mid, hi, viaParser, first) ==
    ThenTokens(first, ReplaceTokens(self, toks, mid + 1, hi, first.rng, viaParser))
ReplaceTokens(self, toks, lo, hi, r, viaParser) ==
    IF lo > hi THEN [out |-> <<>>, rng |-> r]
    ELSE IF lo = hi THEN OneToken(ReplaceToken(self, toks[lo].text, r, viaParser))
    ELSE SecondHalf(self, toks, (lo + hi) \div 2, hi, viaParser,
                    ReplaceTokens(self, toks, lo, (lo + hi) \div 2, r, viaParser))

\* "".join of each replacement followed by its token.whitespace_, stripped
RECURSIVE JoinWithWhitespace(_, _, _, _)
JoinWithWhitespace(toks, out_tokens, lo, hi) ==
    IF lo > hi THEN <<>>
    ELSE IF lo = hi THEN out_tokens[lo] \o (IF toks[lo].ws THEN <<" ">> ELSE <<>>)
    ELSE JoinWithWhitespace(toks, out_tokens, lo, (lo + hi) \div 2)
         \o JoinWithWhitespace(toks, out_tokens, (lo + hi) \div 2 + 1, hi)
_reconstruct_from_spacy_tokens(doc, out_tokens) ==
    Strip(JoinWithWhitespace(doc, out_tokens, 1, Len(doc)))

_join_words_respecting_punct(words) ==
    DropSpacesBefore(JoinSpace(words), {",", ".", ";", ":", "?", "!"})

\* the sentence rebuilt from the replaced tokens rep.out
Rebuild(toks, rep, viaParser) ==
    [rng |-> rep.rng,
     s |-> IF viaParser THEN _reconstruct_from_spacy_tokens(toks, rep.out)
           ELSE _join_words_respecting_punct(rep.out)]

_replace_with_synonyms_context(self, sentence, r, parse) ==
    Rebuild(Tokens(sentence),
            ReplaceTokens(self, Tokens(sentence), 1, Len(Tokens(sentence)), r,
                          self.nlp /\ parse.kind # "raise"),
            self.nlp /\ parse.kind # "raise")

(***************************************************************************)
(* humanize_text.  The steps of one sentence: each takes the record t of    *)
(* the steps before it (t.rng is the generator state they left) and adds    *)
(* the text after it.                                                       *)
(***************************************************************************)
\* s = self._expand_contractions(s)
ExpandStep(self, idx, s, r) ==
    [idx |-> idx, sent |-> s, expanded |-> _expand_contractions(self, s), rng |-> r]

\* the transition step; r1 is the state after the draw of its condition
AddTransitionIf(self, t, r1, addT) ==
    [idx |-> t.idx, sent |-> t.sent, expanded |-> t.expanded, transition |-> addT,
     with_transition |-> IF addT THEN _add_transition(self, t.expanded, RandomStep(r1))
                         ELSE t.expanded,
     rng |-> IF addT THEN RandomStep(r1) ELSE r1]
TransitionStep(self, t, r1) ==
    AddTransitionIf(self, t, r1,
                    /\ RandomBelow(r1, self.p_transition)
                    /\ t.idx % 3 = 0
                    /\ ~_starts_with_transition(self, t.expanded))

\* the passive step; pas is what _safe_passive_transform returned, if called
PassiveResult(t, doP, pas) ==
    [idx |-> t.idx, sent |-> t.sent, expanded |-> t.expanded,
     transition |-> t.transition, with_transition |-> t.with_transition,
     passive |-> doP, passive_raised |-> pas.raised, after_passive |-> pas.s,
     rng |-> pas.rng]
\* the passive step given the sentence as it was before the transition step
PassiveBeforeTransition(self, t, r3, doP, parse) ==
    PassiveResult(t, doP,
                  IF doP THEN _safe_passive_transform(self, t.expanded, r3, parse)
                  ELSE [s |-> t.with_transition, rng |-> r3, raised |-> FALSE])
PassiveIf(self, t, r3, doP, parse) ==
    PassiveResult(t, doP,
                  IF doP THEN _safe_passive_transform(self, t.with_transition, r3, parse)
                  ELSE [s |-> t.with_transition, rng |-> r3, raised |-> FALSE])
PassiveDraw(self, t, r3, allow_passive, parse) ==
    PassiveIf(self, t, r3, allow_passive /\ RandomBelow(r3, self.p_passive), parse)
PassiveStep(self, t, allow_passive, parse) ==
    PassiveDraw(self, t, IF allow_passive THEN RandomStep(t.rng) ELSE t.rng,
                allow_passive, parse)

\* the synonym step and the cleanup; syn is what
\* _replace_with_synonyms_context returned, if called
SynonymResult(t, doS, syn) ==
    [idx |-> t.idx, sent |-> t.sent, expanded |-> t.expanded,
     transition |-> t.transition, with_transition |-> t.with_transition,
     passive |-> t.passive, passive_raised |-> t.passive_raised,
     after_passive |-> t.after_passive,
     synonyms |-> doS, after_synonyms |-> syn.s,
     cleaned |-> _final_clean_sentence(syn.s), rng |-> syn.rng]
SynonymIf(self, t, r4, doS, parse) ==
    SynonymResult(t, doS,
                  IF doS THEN _replace_with_synonyms_context(self, t.after_passive, r4, parse)
                  ELSE [s |-> t.after_passive, rng |-> r4])
SynonymDraw(self, t, r4, allow_synonyms, parse) ==
    SynonymIf(self, t, r4, allow_synonyms /\ RandomBelow(r4, self.p_synonym), parse)
SynonymStep(self, t, allow_synonyms, parse) ==
    SynonymDraw(self, t, IF allow_synonyms THEN RandomStep(t.rng) ELSE t.rng,
                allow_synonyms, parse)

\* the body of the loop for the sentence s (stripped) at the 0-based index idx
ProcessSentence(self, idx, s, r, allow_passive, allow_synonyms, parse) ==
    SynonymStep(self,
                PassiveStep(self,
                            TransitionStep(self, ExpandStep(self, idx, s, r), RandomStep(r)),
                            allow_passive, parse),
                allow_synonyms, parse)

\* the loop over enumerate(sentences), from the 0-based index idx; trace holds
\* the sentences done so far
RECURSIVE ProcessSentences(_, _, _, _, _, _, _, _)
\* the loop keeping only the sentence it transformed last
KeepLastSentence(self, sentences, idx, allow_passive, allow_synonyms, parse, trace, one) ==
    ProcessSentences(self, sentences, idx + 1, one.rng, allow_passive, allow_synonyms,
                     parse, <<one>>)
\* transformed.append(s), and on to the next sentence
AppendSentence(self, sentences, idx, allow_passive, allow_synonyms, parse, trace, one) ==
    ProcessSentences(self, sentences, idx + 1, one.rng, allow_passive, allow_synonyms,
                     parse, Append(trace, one))
ProcessSentences(self, sentences, idx, r, allow_passive, allow_synonyms, parse, trace) ==
    IF idx >= Len(sentences) THEN [trace |-> trace, rng |-> r]
    ELSE IF Strip(sentences[idx + 1]) = <<>>
    THEN ProcessSentences(self, sentences, idx + 1, r, allow_passive, allow_synonyms,
                          parse, trace)
    ELSE AppendSentence(self, sentences, idx, allow_passive, allow_synonyms, parse, trace,
                        ProcessSentence(self, idx, Strip(sentences[idx + 1]), r,
                                        allow_passive, allow_synonyms, parse))

\* the limit taken one character too low
TooLongOffByOne(text) == StrLen(text) >= MaxInputChars

\* len(text) > 20000
TooLong(text) == StrLen(text) > MaxInputChars

\* " ".join(transformed), then the text-level cleanup
Assemble(self, sentences, run) ==
    [sentences |-> sentences, trace |-> run.trace, rng |-> run.rng,
     result |-> _post_process_text(self,
                   JoinSpace([i \in 1..Len(run.trace) |-> run.trace[i].cleaned]))]

Returned(result, r) == [result |-> result, sentences |-> <<>>, trace |-> <<>>, rng |-> r]

\* the part of humanize_text after validation, for the stripped text
Transform(self, text, sentences, allow_passive, allow_synonyms, r, parse) ==
    IF sentences = <<>> THEN Returned(text, r)
    ELSE Assemble(self, sentences,
                  ProcessSentences(self, sentences, 0, r, allow_passive, allow_synonyms,
                                   parse, <<>>))

\* input is [isStr, chars]; the value is the returned string, with the
\* sentences the segmenter gave, the steps taken for each, and the generator
\* state the call leaves
Validate(self, isStr, text, allow_passive, allow_synonyms, r, parse) ==
    IF ~isStr THEN Returned(ErrNotString, r)
    ELSE IF text = <<>> THEN Returned(<<>>, r)
    ELSE IF TooLong(text) THEN Returned(ErrTooLong, r)
    ELSE Transform(self, text,
                   _split_sentences(self.nlp /\ parse.kind # "raise", text),
                   allow_passive, allow_synonyms, r, parse)
humanize_text(self, input, allow_passive, allow_synonyms, r, parse) ==
    Validate(self, input.isStr, Strip(input.chars), allow_passive, allow_synonyms, r, parse)

(***************************************************************************)
(* The texts given to humanize_text.                                        *)
(***************************************************************************)
TextExample ==
    <<"W","e"," ","u","s","e"," ","a"," ","n","e","w"," ","m","e","t","h","o","d","."," ","I","t"," ","w","o","r","k","s"," ","w","e","l","l",".">>
TextContractions ==
    <<"D","o","n","'","t"," ","s","t","o","p","."," ","I"," ","t","h","i","n","k"," ","i","t","'","s"," ","g","o","o","d"," ","a","n","d"," ","t","h","e","y","'","r","e"," ","h","e","r","e",".">>
TextNegation ==
    <<"W","e"," ","c","o","u","l","d","n","'","t"," ","u","s","e"," ","i","t",".">>
TextLeadingTransition ==
    <<"H","o","w","e","v","e","r",";"," ","w","e"," ","u","s","e"," ","a"," ","n","e","w"," ","m","e","t","h","o","d",".">>
TextTwoWordTransition ==
    <<"I","n"," ","c","o","n","t","r","a","s","t"," ","w","e"," ","u","s","e"," ","i","t","."," ","I","t"," ","w","o","r","k","s",".">>
TextRepeatedTransition ==
    <<"H","o","w","e","v","e","r",","," ","m","o","r","e","o","v","e","r",","," ","w","e"," ","u","s","e"," ","i","t",".">>
TextLoose ==
    <<"w","e"," "," ","u","s","e"," ","i","t"," ",","," ","n","o","w"," ","."," "," ","I","t"," ","w","o","r","k","s">>
TextCapitals ==
    <<"U","s","e"," ","N","E","W"," ","c","h","i","n","a"," ","n","o","w",".">>
TextFunctionTag ==
    <<"W","e"," ","u","s","e"," ","i","t"," ","t","h","a","t"," ","w","a","y",".">>
TextBlank ==
    <<" "," ">>

\* texts around the length limit: AtLimit has MaxInputChars characters
TextAtLimit ==
    <<"W","e"," ","u","s","e"," ">> \o <<Filler>> \o <<".">>
TextOverLimit ==
    <<"W","e"," ","u","s","e"," ">> \o <<Filler, "7">> \o <<".">>
TextPaddedAtLimit == TextAtLimit \o <<" ">>

Texts ==
    {TextExample, TextContractions, TextNegation, TextLeadingTransition,
     TextTwoWordTransition, TextRepeatedTransition, TextLoose, TextCapitals,
     TextFunctionTag,
     TextBlank,
     TextAtLimit, TextOverLimit, TextPaddedAtLimit}
NotAString == [isStr |-> FALSE, chars |-> <<>>]
Inputs == {[isStr |-> TRUE, chars |-> t] : t \in Texts} \cup {NotAString}

(***************************************************************************)
(* State.  SPACY_NLP: whether the module loaded the parser.  rng: the state *)
(* of the module-level generator.  humanizers: the instances constructed.   *)
(* calls: the humanize_text calls made so far, with their results.  last:   *)
(* the most recent operation, with the per-sentence steps it took.          *)
(***************************************************************************)
NoSeed == 0 - 1
Seeds == {42}
\* (p_transition, p_passive, p_synonym): all off, the defaults, all forced
Probabilities == {<<0, 0, 0>>, <<33, 25, 45>>, <<100, 100, 100>>}

NoOperation ==
    [op |-> "none", h |-> 0, input |-> NotAString, allow_passive |-> FALSE,
     allow_synonyms |-> FALSE, parse |-> ParseNone, result |-> <<>>,
     sentences |-> <<>>, trace |-> <<>>]

Init ==
    /\ SPACY_NLP \in BOOLEAN
    /\ rng \in RngStates
    /\ humanizers = <<>>
    /\ calls = <<>>
    /\ last = NoOperation

\* AcademicTextHumanizer(p_passive, p_synonym, p_transition, seed, use_spacy_if_available)
Construct(p_passive, p_synonym, p_transition, seed, use_spacy_if_available) ==
    /\ rng' = IF seed # NoSeed THEN SeedState(seed) ELSE rng
    /\ humanizers' = Append(humanizers,
          [nlp |-> use_spacy_if_available /\ SPACY_NLP,
           p_passive |-> p_passive, p_synonym |-> p_synonym,
           p_transition |-> p_transition,
           academic_transitions |-> academic_transitions,
           contractions_map |-> contractions_map,
           academic_word_map |-> academic_word_map,
           seed |-> seed])
    /\ last' = [NoOperation EXCEPT !.op = "__init__", !.h = Len(humanizers) + 1]
    /\ UNCHANGED <<SPACY_NLP, calls>>

\* the inputs of the calls made on instance h so far
RECURSIVE InputsOn(_, _)
InputsOn(h, cs) ==
    IF cs = <<>> THEN <<>>
    ELSE (IF Head(cs).h = h THEN <<Head(cs).input>> ELSE <<>>) \o InputsOn(h, Tail(cs))

\* the call returns out
Return(h, input, allow_passive, allow_synonyms, parse, out) ==
    /\ rng' = out.rng
    /\ last' = [op |-> "humanize_text", h |-> h, input |-> input,
                allow_passive |-> allow_passive, allow_synonyms |-> allow_synonyms,
                parse |-> parse, result |-> out.result,
                sentences |-> out.sentences, trace |-> out.trace]
    /\ calls' = Append(calls,
          [h |-> h, earlier |-> InputsOn(h, calls), input |-> input,
           allow_passive |-> allow_passive, allow_synonyms |-> allow_synonyms,
           parse |-> parse, result |-> out.result])
    /\ UNCHANGED <<SPACY_NLP, humanizers>>

\* humanizers[h].humanize_text(input, allow_passive=..., allow_synonyms=...)
HumanizeText(h, input, allow_passive, allow_synonyms, parse) ==
    Return(h, input, allow_passive, allow_synonyms, parse,
           humanize_text(humanizers[h], input, allow_passive, allow_synonyms, rng, parse))

\* the parser answers only where it is loaded and one of the steps asks it
ParsesFor(h, allow_passive, allow_synonyms) ==
    IF ~humanizers[h].nlp THEN {ParseNone}
    ELSE IF allow_passive THEN ParseOutcomes
    ELSE {ParseNone, ParseRaise}

(***************************************************************************)
(* Spec: one call on a freshly constructed instance.  What a call returns   *)
(* depends on the instance, the generator state and the inputs only, and    *)
(* Init and Construct give every generator state and every instance, so one *)
(* call from each covers every call of a longer run.                        *)
(***************************************************************************)
Next ==
    \/ \E pr \in Probabilities, seed \in Seeds \cup {NoSeed}, use_spacy \in BOOLEAN :
          /\ humanizers = <<>>
          /\ Construct(pr[2], pr[3], pr[1], seed, use_spacy)
    \/ \E h \in 1..Len(humanizers), input \in Inputs,
          allow_passive \in BOOLEAN, allow_synonyms \in BOOLEAN :
          \E parse \in ParsesFor(h, allow_passive, allow_synonyms) :
             /\ calls = <<>>
             /\ HumanizeText(h, input, allow_passive, allow_synonyms, parse)

Spec == Init /\ [][Next]_vars

(***************************************************************************)
(* SpecShared: several instances and several calls in one process, all on   *)
(* the module-level generator.  Every sentence gets a transition, whose     *)
(* choice shows the generator state the call started from.                  *)
(***************************************************************************)
MaxHumanizers == 2
MaxCalls == 2

NextShared ==
    \/ \E seed \in Seeds \cup {NoSeed} :
          /\ Len(humanizers) < MaxHumanizers
          /\ Construct(0, 0, 100, seed, TRUE)
    \/ \E h \in 1..Len(humanizers), text \in {TextExample, TextNegation} :
          /\ Len(calls) < MaxCalls
          /\ HumanizeText(h, [isStr |-> TRUE, chars |-> text], FALSE, FALSE, ParseNone)

SpecShared == Init /\ [][NextShared]_vars

(***************************************************************************)
(* The HTTP operation process_text of src/app.py.  A call that passes a     *)
(* keyword argument the callee has no parameter for raises TypeError.       *)
(***************************************************************************)
MaxRequestChars == 10000
ErrTextTooLong ==
    <<"T","e","x","t"," ","t","o","o"," ","l","o","n","g","!"," ","M","a","x","i","m","u","m"," ","1","0",",","0","0","0"," ","c","h","a","r","a","c","t","e","r","s"," ","a","l","l","o","w","e","d",".">>
\* f"Processing error: {str(e)}", without the text of the exception
ErrProcessing ==
    <<"P","r","o","c","e","s","s","i","n","g"," ","e","r","r","o","r",":"," ">>
\* ProcessResponse.error = None
NoError == <<>>

\* the parameters of __init__ and the keyword-only parameters of humanize_text
InitParameters == {"p_passive", "p_synonym", "p_transition", "seed", "use_spacy_if_available"}
HumanizeParameters == {"allow_passive", "allow_synonyms"}
\* the keywords process_text passes to each
ServiceInitKeywords == {"p_passive", "p_synonym_replacement", "p_academic_transition"}
ServiceCallKeywords == {"use_passive", "use_synonyms"}
Accepts(parameters, keywords) == keywords \subseteq parameters

\* the humanizer the keywords 0.2, 0.2, 0.2 would construct
ServiceHumanizer(nlp) ==
    [nlp |-> nlp, p_passive |-> 20, p_synonym |-> 20, p_transition |-> 20,
     academic_transitions |-> academic_transitions,
     contractions_map |-> contractions_map,
     academic_word_map |-> academic_word_map,
     seed |-> NoSeed]

Response(result, error, r) == [result |-> result, error |-> error, rng |-> r]
Humanized(out) == Response(out.result, NoError, out.rng)
\* request is [text, use_passive, use_synonyms]
process_text(request, r, nlp, parse) ==
    IF StrLen(request.text) > MaxRequestChars THEN Response(<<>>, ErrTextTooLong, r)
    ELSE IF ~Accepts(InitParameters, ServiceInitKeywords) THEN Response(<<>>, ErrProcessing, r)
    ELSE IF ~Accepts(HumanizeParameters, ServiceCallKeywords)
    THEN Response(<<>>, ErrProcessing, r)
    ELSE Humanized(humanize_text(ServiceHumanizer(nlp),
                                 [isStr |-> TRUE, chars |-> request.text],
                                 request.use_passive, request.use_synonyms, r, parse))

Requests ==
    {[text |-> t, use_passive |-> p, use_synonyms |-> y] :
        t \in Texts, p \in BOOLEAN, y \in BOOLEAN}

\* POST /api/process: before is the generator state the request found
Respond(request, parse, response) ==
    /\ rng' = response.rng
    /\ last' = [op |-> "process_text", h |-> 0, request |-> request, parse |-> parse,
                before |-> rng, result |-> response.result, error |-> response.error]
    /\ UNCHANGED <<SPACY_NLP, humanizers, calls>>
ProcessText(request, parse) ==
    Respond(request, parse, process_text(request, rng, SPACY_NLP, parse))

NextService ==
    \E request \in Requests :
        \E parse \in (IF SPACY_NLP THEN ParseOutcomes ELSE {ParseNone}) :
            ProcessText(request, parse)

(***************************************************************************)
(* SpecService: requests to the HTTP operation, one after another.          *)
(***************************************************************************)
SpecService == Init /\ [][NextService]_vars

(***************************************************************************)
(* Properties.                                                              *)
(***************************************************************************)
Called == last.op = "humanize_text"
Self == humanizers[last.h]
\* the stripped text of the last call
Text == Strip(last.input.chars)
\* the last call got a string that passed validation and was transformed
Transformed == Called /\ last.trace # <<>>
AllOff ==
    /\ Self.p_transition = 0 /\ Self.p_passive = 0 /\ Self.p_synonym = 0
    /\ ~last.allow_passive /\ ~last.allow_synonyms

\* the letters and digits of a text in order, lowercased: its words without
\* their spacing, punctuation and capitalization
Letters(s) == Lower(SelectSeq(s, IsWordCh))

\* some contraction key matches somewhere in s
HasContraction(self, s) ==
    \E i \in 1..Len(s), n \in 1..Len(self.contractions_map) :
        ContractionMatchAt(s, i, self.contractions_map[n][1])

\* s needs no cleanup: single spaces inside, none at the ends, none before a
\* comma or a period, no doubled comma, every sentence starts with a capital
IsClean(s) ==
    /\ s # <<>> /\ ~IsSpace(s[1]) /\ ~IsSpace(s[Len(s)])
    /\ IsUpperCh(s[1])
    /\ \A i \in 1..(Len(s) - 1) :
          /\ IsSpace(s[i]) => s[i + 1] \notin {" ", ",", "."}
          /\ s[i] = "," => s[i + 1] # ","
          /\ (s[i] \in SentenceEnd /\ IsSpace(s[i + 1])) =>
                (i + 2 <= Len(s) /\ IsUpperCh(s[i + 2]))

\* the steps of one sentence left it as contraction expansion made it
OnlyExpanded(t) ==
    /\ ~t.transition /\ ~t.passive /\ ~t.synonyms
    /\ t.with_transition = t.expanded
    /\ t.after_passive = t.expanded
    /\ t.after_synonyms = t.expanded

\* C1: with the three probabilities 0 and both flags off, no sentence gets a
\* transition, a passive rewrite or a synonym; the words of the result are
\* the words of the contraction-expanded input, none added and none removed;
\* and a text with no contraction that needs no cleanup is returned exactly
\* as given.
C1_OnlyExpansionAndCleanup ==
    (Transformed /\ AllOff) =>
        /\ \A i \in 1..Len(last.trace) : OnlyExpanded(last.trace[i])
        /\ Letters(last.result) = Letters(_expand_contractions(Self, Text))
        /\ (~HasContraction(Self, Text) /\ IsClean(Text)) => last.result = Text

\* C1 witness: such a call expanded the contractions of a text that held some
C1_Witness ==
    /\ Transformed /\ AllOff
    /\ HasContraction(Self, Text)
    /\ Letters(last.result) = Letters(_expand_contractions(Self, Text))
    /\ last.result # Text

\* the humanize_text calls c and d got the same arguments
SameArguments(c, d) ==
    /\ c.input = d.input
    /\ c.allow_passive = d.allow_passive /\ c.allow_synonyms = d.allow_synonyms
    /\ c.parse = d.parse

\* the instances a and b were constructed with the same arguments, a seed
\* among them
SameSeededConstruction(a, b) ==
    /\ humanizers[a].seed # NoSeed
    /\ humanizers[a] = humanizers[b]

\* C2: any two humanize_text calls with the same input, flags, probabilities
\* and seed return the same output, whatever happened before or between
\* them (two successive calls on one seeded humanizer included).
C2_SameSeedSameOutput ==
    \A i \in 1..Len(calls), j \in 1..Len(calls) :
        (/\ SameSeededConstruction(calls[i].h, calls[j].h)
         /\ SameArguments(calls[i], calls[j])) =>
            calls[i].result = calls[j].result

\* C2 witness: one seeded humanizer was called twice with the same text
C2_Witness ==
    /\ Len(calls) = 2
    /\ calls[1].h = calls[2].h
    /\ humanizers[calls[1].h].seed # NoSeed
    /\ SameArguments(calls[1], calls[2])

\* the cleaned sentences of the last call, in order
Units == [i \in 1..Len(last.trace) |-> last.trace[i].cleaned]

\* C3 (as amended): the output is made of exactly one unit per sentence the
\* segmenter produced, in the segmenter's order, none of them empty: unit i
\* is what the steps made of sentence i, and the output is the units joined
\* in that order and cleaned.  A unit may hold more than one sentence: the
\* passive step may have appended a generic sentence to it.
C3_OneUnitPerSentenceInOrder ==
    Transformed =>
        /\ Len(last.trace) = Len(last.sentences)
        /\ \A i \in 1..Len(last.trace) :
              /\ last.trace[i].idx = i - 1
              /\ last.trace[i].sent = last.sentences[i]
              /\ last.trace[i].cleaned # <<>>
        /\ last.result = _post_process_text(Self, JoinSpace(Units))

\* C3 witness: a text of two sentences went through with every step forced,
\* and a generic sentence was appended to one of them
C3_Witness ==
    /\ Transformed
    /\ Len(last.sentences) = 2
    /\ Self.p_transition = 100 /\ Self.p_passive = 100 /\ Self.p_synonym = 100
    /\ last.allow_passive /\ last.allow_synonyms
    /\ \E i \in 1..Len(last.trace) :
          last.trace[i].after_passive
              \in {last.trace[i].with_transition \o PassiveClauseNoParser,
                   last.trace[i].with_transition \o PassiveClauseFallback}

\* C3 (as stated): for a multi-sentence input, the output holds as many
\* sentences as the segmenter produced for the input.
C3_SameSentenceCount ==
    (Transformed /\ Len(last.sentences) >= 2) =>
        Len(_split_sentences(Self.nlp, last.result)) = Len(last.sentences)

\* the decimal number the digits of s spell, read after acc
DecimalDigits == <<"0", "1", "2", "3", "4", "5", "6", "7", "8", "9">>
IsDecimalDigit(c) == \E d \in 1..10 : DecimalDigits[d] = c
DigitValue(c) == (CHOOSE d \in 1..10 : DecimalDigits[d] = c) - 1
RECURSIVE NumberIn(_, _)
NumberIn(s, acc) ==
    IF s = <<>> THEN acc
    ELSE NumberIn(Tail(s), IF IsDecimalDigit(Head(s)) THEN 10 * acc + DigitValue(Head(s))
                           ELSE acc)
\* the last call got a string
GotString == Called /\ last.input.isStr

\* C4 (as amended): the length humanize_text checks is that of the input with
\* its surrounding whitespace stripped.  Every input whose stripped length is
\* over 20,000 is rejected with the error string, which names the limit, and
\* nothing is transformed; every input whose stripped length is between 1 and
\* 20,000 is accepted and transformed; an input of whitespace only returns
\* the empty string.
C4_StrippedLengthBound ==
    GotString =>
        /\ NumberIn(ErrTooLong, 0) = MaxInputChars
        /\ StrLen(Text) > MaxInputChars =>
              (last.result = ErrTooLong /\ last.trace = <<>>)
        /\ (Text # <<>> /\ StrLen(Text) <= MaxInputChars) =>
              (last.result # ErrTooLong /\ last.trace # <<>>)
        /\ Text = <<>> => (last.result = <<>> /\ last.trace = <<>>)

\* C4 witness: a text of exactly 20,001 characters was rejected
C4_Witness ==
    /\ GotString
    /\ StrLen(Text) = MaxInputChars + 1
    /\ last.result = ErrTooLong

\* C4 (as stated): every input string longer than 20,000 characters is
\* rejected with the error string, and every non-empty input of at most
\* 20,000 characters is accepted and transformed.
C4_InputLengthBound ==
    GotString =>
        /\ StrLen(last.input.chars) > MaxInputChars => last.result = ErrTooLong
        /\ (last.input.chars # <<>> /\ StrLen(last.input.chars) <= MaxInputChars) =>
              (last.result # ErrTooLong /\ last.trace # <<>>)

\* two entries of the transition list stand in s with only a comma and
\* whitespace between them
AdjacentTransitions(trans, s) ==
    \E i \in 1..Len(s), a \in 1..Len(trans), b \in 1..Len(trans) :
        /\ WordBoundary(s, i)
        /\ MatchAt(s, i, trans[a], TRUE)
        /\ i + Len(trans[a]) <= Len(s)
        /\ s[i + Len(trans[a])] = ","
        /\ MatchAt(s, SkipSpaces(s, i + Len(trans[a]) + 1), trans[b], TRUE)
        /\ WordBoundary(s, SkipSpaces(s, i + Len(trans[a]) + 1) + Len(trans[b]))

\* C5: with p_transition = 1.0 the output never holds two entries of the
\* transition list next to each other, separated only by a comma and
\* whitespace.
C5_NoAdjacentTransitions ==
    (Transformed /\ Self.p_transition = 100) =>
        ~AdjacentTransitions(Self.academic_transitions, last.result)

\* C5 witness: with p_transition = 1.0 a sentence that starts with a
\* transition followed by a comma got no second one
C5_Witness ==
    /\ Transformed /\ Self.p_transition = 100
    /\ _starts_with_transition(Self, last.trace[1].expanded)
    /\ ~last.trace[1].transition
    /\ ~AdjacentTransitions(Self.academic_transitions, last.result)

\* the input of the last call is valid: a string, not blank, within the limit
ValidInput == GotString /\ Text # <<>> /\ StrLen(Text) <= MaxInputChars

\* C6: without a parser (self.nlp is None), humanize_text with
\* allow_passive = true returns a non-empty result that is not an error
\* string for every valid non-empty input, and every sentence leaves the
\* passive step unchanged or with the one fixed clause of that branch
\* appended; nothing is raised on the way.
C6_PassiveWithoutParser ==
    (ValidInput /\ ~Self.nlp /\ last.allow_passive) =>
        /\ last.trace # <<>>
        /\ last.result # <<>>
        /\ last.result \notin {ErrNotString, ErrTooLong}
        /\ \A i \in 1..Len(last.trace) :
              /\ ~last.trace[i].passive_raised
              /\ last.trace[i].after_passive
                    \in {last.trace[i].with_transition,
                         last.trace[i].with_transition \o PassiveClauseNoParser}

\* C6 witness: without a parser the passive step ran and appended its clause
C6_Witness ==
    /\ ValidInput /\ ~Self.nlp /\ last.allow_passive
    /\ \E i \in 1..Len(last.trace) :
          /\ last.trace[i].passive
          /\ last.trace[i].after_passive
                = last.trace[i].with_transition \o PassiveClauseNoParser

\* C7: a sentence whose passive step failed (the parser raised) goes on from
\* the text it had before that step, and the call still returns every
\* sentence.
C7_FailedStepKeepsSentence ==
    Transformed =>
        /\ Len(last.trace) = Len(last.sentences)
        /\ \A i \in 1..Len(last.trace) :
              last.trace[i].passive_raised =>
                  last.trace[i].after_passive = last.trace[i].with_transition

\* C7 witness: the parser raised in the passive step of a sentence, and the
\* call returned
C7_Witness ==
    /\ Transformed
    /\ \E i \in 1..Len(last.trace) : last.trace[i].passive_raised

\* C8: for two calls on seeded humanizers constructed alike, each with the
\* same calls of its own before it, the same arguments give the same output,
\* whatever other humanizers were constructed or called in between; and every
\* humanizer keeps the vocabulary tables it was constructed with.
C8_NoSharedMutableState ==
    /\ \A i \in 1..Len(calls), j \in 1..Len(calls) :
          (/\ SameSeededConstruction(calls[i].h, calls[j].h)
           /\ calls[i].earlier = calls[j].earlier
           /\ SameArguments(calls[i], calls[j])) =>
              calls[i].result = calls[j].result
    /\ \A h \in 1..Len(humanizers) :
          /\ humanizers[h].academic_transitions = academic_transitions
          /\ humanizers[h].contractions_map = contractions_map
          /\ humanizers[h].academic_word_map = academic_word_map

\* C8 witness: two humanizers constructed alike were each called once with
\* the same text
C8_Witness ==
    /\ Len(calls) = 2
    /\ calls[1].h # calls[2].h
    /\ SameSeededConstruction(calls[1].h, calls[2].h)
    /\ SameArguments(calls[1], calls[2])

\* the first place in s where a contraction key matches, Len(s) + 1 if none
FirstContraction(self, s) ==
    FirstIndex(LAMBDA i : \E n \in 1..Len(self.contractions_map) :
                              ContractionMatchAt(s, i, self.contractions_map[n][1]),
               1, Len(s))
\* the character at p has in expanded the case it has in sent
SameCaseAt(sent, expanded, p) ==
    /\ p <= Len(expanded)
    /\ IsUpperCh(sent[p]) <=> IsUpperCh(expanded[p])
    /\ IsLowerCh(sent[p]) <=> IsLowerCh(expanded[p])

\* C9: contraction expansion keeps the case of the first letter of what it
\* matched; stated for the first match of a sentence, before which the
\* sentence is unchanged.
C9_ExpansionKeepsCapital ==
    Transformed =>
        \A i \in 1..Len(last.trace) :
            FirstContraction(Self, last.trace[i].sent) <= Len(last.trace[i].sent) =>
                SameCaseAt(last.trace[i].sent, last.trace[i].expanded,
                           FirstContraction(Self, last.trace[i].sent))

\* C9 witness: a sentence whose first contraction starts with a lowercase
\* letter was expanded
C9_Witness ==
    /\ Transformed
    /\ \E i \in 1..Len(last.trace) :
          /\ FirstContraction(Self, last.trace[i].sent) <= Len(last.trace[i].sent)
          /\ IsLowerCh(last.trace[i].sent[FirstContraction(Self, last.trace[i].sent)])
          /\ last.trace[i].expanded # last.trace[i].sent

\* a key of the map still ends a word of s
LeftUnexpanded(self, s) ==
    \E i \in 1..Len(s), n \in 1..Len(self.contractions_map) :
        /\ MatchAt(s, i, self.contractions_map[n][1], TRUE)
        /\ WordBoundary(s, i + Len(self.contractions_map[n][1]))
\* the word that starts at p in sent is the key k, and expanded has the value
\* of k there
FullKeyExpanded(self, sent, expanded, p) ==
    \A n \in 1..Len(self.contractions_map) :
        (/\ IsWordCh(self.contractions_map[n][1][1])
         /\ ContractionMatchAt(sent, p, self.contractions_map[n][1])) =>
            MatchAt(expanded, p, self.contractions_map[n][2], TRUE)

\* C10: after _expand_contractions no key of the map is left at the end of a
\* word, and a word that is a full key has become that key's own expansion
\* (stated for the first match of a sentence).
C10_NoContractionLeft ==
    Transformed =>
        \A i \in 1..Len(last.trace) :
            /\ ~LeftUnexpanded(Self, last.trace[i].expanded)
            /\ FirstContraction(Self, last.trace[i].sent) <= Len(last.trace[i].sent) =>
                  FullKeyExpanded(Self, last.trace[i].sent, last.trace[i].expanded,
                                  FirstContraction(Self, last.trace[i].sent))

\* C10 witness: a sentence with contractions came out with none left
C10_Witness ==
    /\ Transformed
    /\ \E i \in 1..Len(last.trace) :
          /\ HasContraction(Self, last.trace[i].sent)
          /\ ~LeftUnexpanded(Self, last.trace[i].expanded)

\* the tokens of sentence n of the last call before and after its synonym step
TokensBefore(n) == Tokens(last.trace[n].after_passive)
TokensAfter(n) == Tokens(last.trace[n].after_synonyms)
\* token k of sentence n was replaced by the synonym step
Replaced(n, k) ==
    /\ last.trace[n].synonyms
    /\ k <= Len(TokensAfter(n))
    /\ TokensAfter(n)[k].text # TokensBefore(n)[k].text
\* every letter of w is lowercase, and there is one
IsLower(w) ==
    /\ \E i \in 1..Len(w) : IsCased(w[i])
    /\ \A i \in 1..Len(w) : ~IsUpperCh(w[i])
\* new has the capitalization pattern of old
SamePattern(old, new) ==
    /\ IsTitle(old) => IsTitle(new)
    /\ IsUpper(old) => IsUpper(new)
    /\ IsLower(old) => IsLower(new)

\* C11: a word the synonym step replaced (from the curated table or from the
\* thesaurus, on the parser path or on the tagger path) has a replacement of
\* its own capitalization pattern: Title case gives Title case, all capitals
\* give all capitals, lowercase gives lowercase.
C11_ReplacementKeepsCase ==
    Transformed =>
        \A n \in 1..Len(last.trace) : \A k \in 1..Len(TokensBefore(n)) :
            Replaced(n, k) =>
                SamePattern(TokensBefore(n)[k].text, TokensAfter(n)[k].text)

\* C11 witness: a Title-case word and a word in capitals were both replaced,
\* each by a word of its pattern
C11_Witness ==
    /\ Transformed
    /\ \E n \in 1..Len(last.trace) : \E j, k \in 1..Len(TokensBefore(n)) :
          /\ Replaced(n, j) /\ IsTitle(TokensBefore(n)[j].text)
          /\ IsTitle(TokensAfter(n)[j].text)
          /\ Replaced(n, k) /\ ~IsTitle(TokensBefore(n)[k].text)
          /\ IsUpper(TokensBefore(n)[k].text)
          /\ IsUpper(TokensAfter(n)[k].text)

\* the last operation was a request to process_text
Requested == last.op = "process_text"

\* C12: process_text answers every request; for a text of at most 10,000
\* characters the response has no error and its result is what humanize_text
\* returns for the request's text and flags, and only a longer text gets the
\* empty result with the 'Text too long' error.
C12_ServiceReturnsTransformedText ==
    Requested =>
        IF StrLen(last.request.text) > MaxRequestChars
        THEN last.result = <<>> /\ last.error = ErrTextTooLong
        ELSE /\ last.error = NoError
             /\ last.result =
                   humanize_text(ServiceHumanizer(SPACY_NLP),
                                 [isStr |-> TRUE, chars |-> last.request.text],
                                 last.request.use_passive, last.request.use_synonyms,
                                 last.before, last.parse).result

\* C12 witness: a request with a text of at most 10,000 characters was answered
C12_Witness ==
    /\ Requested
    /\ last.request.text = TextExample
    /\ StrLen(last.request.text) <= MaxRequestChars

\* the passive step of sentence n of the last call ran into an exception
PassiveRaised(n) == last.trace[n].passive /\ last.trace[n].passive_raised

\* C13: whenever an exception is raised while _safe_passive_transform parses
\* or restructures a sentence, it is caught and the function returns the
\* sentence it was given, nothing appended and nothing changed; the call
\* returns a result for every sentence all the same.
C13_PassiveFailureReturnsOriginal ==
    Transformed =>
        \A n \in 1..Len(last.trace) :
            PassiveRaised(n) =>
                /\ last.trace[n].after_passive = last.trace[n].with_transition
                /\ last.trace[n].cleaned # <<>>
                /\ last.result \notin {ErrNotString, ErrTooLong}

\* C13 witness: the parser raised in a passive step and the sentence came out
\* of the step as it went in
C13_Witness ==
    /\ Transformed
    /\ \E n \in 1..Len(last.trace) :
          /\ PassiveRaised(n)
          /\ Len(Split(last.trace[n].with_transition)) >= 4
          /\ last.trace[n].after_passive = last.trace[n].with_transition

\* the word tokens of sentence n of the last call before and after its
\* passive step, and the place among the former of position p of the parse
WordsBefore(n) == WordTokens(last.trace[n].with_transition)
WordsAfter(n) == WordTokens(last.trace[n].after_passive)
PlaceOf(n, p) == IF p = 0 THEN Len(WordsBefore(n)) ELSE p
\* the passive step built the passive form of sentence n
Restructured(n) ==
    /\ last.trace[n].passive
    /\ last.trace[n].after_passive
          \notin {last.trace[n].with_transition,
                  last.trace[n].with_transition \o PassiveClauseNoParser,
                  last.trace[n].with_transition \o PassiveClauseFallback}
\* word k of sentence n lies outside its subject-verb-object span
OutsideSpan(n, k) ==
    k < PlaceOf(n, last.parse.subj) \/ k > PlaceOf(n, last.parse.dobj)

\* C14: the passive form is built only where the parse gives a subject, a
\* root verb and a direct object in that order, and only the span from the
\* subject to the object is replaced: every word outside it, and the
\* terminal punctuation, are still in the sentence after the step.
C14_PassiveReplacesOnlySpan ==
    Transformed =>
        \A n \in 1..Len(last.trace) :
            Restructured(n) =>
                /\ last.parse.kind = "svo"
                /\ PlaceOf(n, last.parse.subj) < PlaceOf(n, last.parse.root)
                /\ PlaceOf(n, last.parse.root) < PlaceOf(n, last.parse.dobj)
                /\ \A k \in 1..Len(WordsBefore(n)) :
                      OutsideSpan(n, k) =>
                          \E j \in 1..Len(WordsAfter(n)) :
                              Lower(WordsAfter(n)[j].text) = Lower(WordsBefore(n)[k].text)
                /\ last.trace[n].after_passive[Len(last.trace[n].after_passive)]
                      = last.trace[n].with_transition[Len(last.trace[n].with_transition)]

\* C14 witness: a sentence whose subject, verb and object stand in that order
\* was given its passive form
C14_Witness ==
    /\ Transformed
    /\ \E n \in 1..Len(last.trace) :
          /\ Restructured(n)
          /\ last.parse.kind = "svo"
          /\ PlaceOf(n, last.parse.subj) < PlaceOf(n, last.parse.root)
          /\ PlaceOf(n, last.parse.root) < PlaceOf(n, last.parse.dobj)

\* s begins, ignoring case, with an entry of the transition list that ends
\* at a word boundary
BeginsWithTransition(self, s) ==
    \E a \in 1..Len(self.academic_transitions) :
        /\ MatchAt(s, 1, self.academic_transitions[a], TRUE)
        /\ WordBoundary(s, 1 + Len(self.academic_transitions[a]))

\* C15: a sentence that already begins, ignoring case, with an entry of the
\* transition list (any of the twelve, followed by a comma or not) gets no
\* transition in front: it leaves the transition step unchanged, whatever
\* was drawn.
C15_NoTransitionBeforeTransition ==
    Transformed =>
        \A n \in 1..Len(last.trace) :
            BeginsWithTransition(Self, last.trace[n].expanded) =>
                /\ ~last.trace[n].transition
                /\ last.trace[n].with_transition = last.trace[n].expanded

\* C15 witness: with p_transition = 1.0 the first sentence began with a
\* transition and left the step unchanged
C15_Witness ==
    /\ Transformed
    /\ Self.p_transition = 100
    /\ BeginsWithTransition(Self, last.trace[1].expanded)
    /\ last.trace[1].with_transition = last.trace[1].expanded

\* token k of sentence n is punctuation, or a word whose tag is outside the
\* four content classes
NotContent(n, k) ==
    \/ ~IsWordToken(TokensBefore(n)[k].text)
    \/ PosOf(TokensBefore(n)[k].text) \notin ContentPos

\* C16: the synonym step, on the parser path and on the tagger path, keeps
\* the number and the order of the tokens of a sentence and leaves every
\* punctuation token and every word tagged other than noun, verb, adjective
\* or adverb as it was.
C16_OnlyContentWordsReplaced ==
    Transformed =>
        \A n \in 1..Len(last.trace) :
            last.trace[n].synonyms =>
                /\ Len(TokensAfter(n)) = Len(TokensBefore(n))
                /\ \A k \in 1..Len(TokensBefore(n)) :
                      NotContent(n, k) =>
                          TokensAfter(n)[k].text = TokensBefore(n)[k].text

\* C16 witness: on the tagger path the synonym step replaced a content word
\* of a sentence and left its other tokens as they were
C16_Witness ==
    /\ Transformed
    /\ ~Self.nlp
    /\ \E n \in 1..Len(last.trace) :
          /\ \E k \in 1..Len(TokensBefore(n)) : Replaced(n, k) /\ ~NotContent(n, k)
          /\ \A k \in 1..Len(TokensBefore(n)) : NotContent(n, k) => ~Replaced(n, k)

\* the steps of one sentence t of the last call, each taking what the step
\* before it left
ExpandedFirst(t) == t.expanded = _expand_contractions(Self, t.sent)
TransitionSecond(t) ==
    IF t.transition
    THEN \E r \in RngStates : t.with_transition = _add_transition(Self, t.expanded, r)
    ELSE t.with_transition = t.expanded
PassiveThird(t) ==
    IF t.passive
    THEN /\ last.allow_passive
         /\ \E r \in RngStates :
               t.after_passive
                  = _safe_passive_transform(Self, t.with_transition, r, last.parse).s
    ELSE t.after_passive = t.with_transition
SynonymsFourth(t) ==
    IF t.synonyms
    THEN /\ last.allow_synonyms
         /\ \E r \in RngStates :
               t.after_synonyms
                  = _replace_with_synonyms_context(Self, t.after_passive, r, last.parse).s
    ELSE t.after_synonyms = t.after_passive
CleanupLast(t) == t.cleaned = _final_clean_sentence(t.after_synonyms)
\* the draws of sentence n + 1 (u) follow the last draw of sentence n (t):
\* the one for its transition, one more if a transition is chosen, then the
\* one for its passive step
StartsAfter(t, u) ==
    /\ u.transition = (/\ RandomBelow(RandomStep(t.rng), Self.p_transition)
                       /\ u.idx % 3 = 0
                       /\ ~_starts_with_transition(Self, u.expanded))
    /\ u.passive =
          (/\ last.allow_passive
           /\ RandomBelow(RandomStep(IF u.transition THEN RandomStep(RandomStep(t.rng))
                                     ELSE RandomStep(t.rng)),
                          Self.p_passive))

\* C17: for every sentence the steps run in the order contraction expansion,
\* transition, passive rewrite (if enabled), synonym substitution (if
\* enabled), per-sentence cleanup, each at most once and each on what the
\* step before left; sentence n + 1 starts after sentence n is finished; and
\* the text-level cleanup runs once, on the cleaned sentences joined.
C17_FixedStepOrder ==
    Transformed =>
        /\ \A n \in 1..Len(last.trace) :
              /\ ExpandedFirst(last.trace[n])
              /\ TransitionSecond(last.trace[n])
              /\ PassiveThird(last.trace[n])
              /\ SynonymsFourth(last.trace[n])
              /\ CleanupLast(last.trace[n])
        /\ \A n \in 1..(Len(last.trace) - 1) :
              StartsAfter(last.trace[n], last.trace[n + 1])
        /\ last.result
              = _post_process_text(Self,
                    JoinSpace([n \in 1..Len(last.trace) |-> last.trace[n].cleaned]))

\* C17 witness: a call of two sentences in which the transition step, the
\* passive step and the synonym step each changed the first sentence
C17_Witness ==
    /\ Transformed
    /\ Len(last.trace) = 2
    /\ last.trace[1].transition /\ last.trace[1].passive /\ last.trace[1].synonyms
    /\ last.trace[1].with_transition # last.trace[1].expanded
    /\ last.trace[1].after_passive # last.trace[1].with_transition
    /\ last.trace[1].after_synonyms # last.trace[1].after_passive
====
